---- MODULE Spec2Model ----
(***************************************************************************)
(* A model of MarkdownLexer (src/src/markdown-tool.py).                    *)
(*                                                                         *)
(* The input text is a sequence of one-character strings.  The lexer's     *)
(* fields (position, line, column, tokens) are the state; every iteration  *)
(* of the dispatch loop of _tokenize is one action, named after the        *)
(* handler the iteration calls, and get_next_token is one action.          *)
(* A Python IndexError is modelled by the flag "raised": the handler stops *)
(* where the exception is thrown and the construction never completes.     *)
(***************************************************************************)
EXTENDS Integers, Sequences, FiniteSets, TLC

VARIABLES text, position, line, column, tokens, pc, returned

vars == <<text, position, line, column, tokens, pc, returned>>

----------------------------------------------------------------------------
(* Bounds of the explored inputs.                                          *)

MaxLen == 2
MaxHashes == 7
MaxTail == 3
MaxRuleLen == 4
MaxListLen == 5
MaxTokens == 12
MaxPulls == 2
MaxLiveLen == 3
MaxTableLen == 5
MaxCodeLen == 6
MaxLinkLen == 5
MaxEmphLen == 5
MaxTildeLen == 6

----------------------------------------------------------------------------
(* Characters.                                                             *)

NL == "\n"
BS == "\\"
SP == " "
\* the backquote, which a TLA+ string cannot hold
BT == "BT"
NoChar == ""

Digits == {"0", "1", "2", "3", "4", "5", "6", "7", "8", "9"}
Whitespace == {SP, NL}

Alphabet ==
  {BS, "#", "*", "+", "-", "_", "1", ">", BT, "|", "<", "[", "~", NL,
   SP, "a", ".", "^", "]", "(", ")", ":", "!"}
HeadingTail == {SP, "a", NL}
RuleAlphabet == {"-", "*", "_", "+", SP, NL, "a"}
ListAlphabet == {"1", "0", ".", SP, "a", NL}
TableAlphabet == {"|", "a", NL}
CodeAlphabet == {BT, "a", NL}
LinkAlphabet == {"[", "]", "(", ")", "a"}
EmphAlphabet == {"*", "_", "a", NL}
TildeAlphabet == {"~", "a", NL}

IsDigit(ch) == ch \in Digits
IsSpace(ch) == ch \in Whitespace

Min(a, b) == IF a < b THEN a ELSE b

Strings(alphabet, n) == UNION {[1..k -> alphabet] : k \in 0..n}

RECURSIVE Repeat(_, _)
Repeat(ch, n) == IF n = 0 THEN <<>> ELSE <<ch>> \o Repeat(ch, n - 1)

Inputs ==
  Strings(Alphabet, MaxLen)
    \cup {Repeat("#", n) \o t : n \in 1..MaxHashes, t \in Strings(HeadingTail, MaxTail)}
    \cup Strings(RuleAlphabet, MaxRuleLen)
    \cup Strings(ListAlphabet, MaxListLen)
    \cup Strings(TableAlphabet, MaxTableLen)
    \cup Strings(CodeAlphabet, MaxCodeLen)
    \cup Strings(LinkAlphabet, MaxLinkLen)
    \cup {<<"!">> \o t : t \in Strings(LinkAlphabet, MaxLinkLen)}
    \cup Strings(EmphAlphabet, MaxEmphLen)
    \cup Strings(TildeAlphabet, MaxTildeLen)

----------------------------------------------------------------------------
(* Token and string helpers.                                               *)

Token(token_type, value, l, c) ==
  [token_type |-> token_type, value |-> value, line |-> l, column |-> c]

None == "None"

\* text[a:b] of Python: both ends clamped to the text
Slice(a, b) ==
  LET hi == Min(b, Len(text))
  IN IF a + 1 > hi THEN <<>> ELSE SubSeq(text, a + 1, hi)

RECURSIVE LStrip(_)
LStrip(s) == IF s # <<>> /\ IsSpace(Head(s)) THEN LStrip(Tail(s)) ELSE s

RECURSIVE RStrip(_)
RStrip(s) ==
  IF s # <<>> /\ IsSpace(s[Len(s)]) THEN RStrip(SubSeq(s, 1, Len(s) - 1)) ELSE s

\* str.strip()
Strip(s) == RStrip(LStrip(s))

----------------------------------------------------------------------------
(* The cursor: a lexer state is a record of the mutable fields, with the   *)
(* flag raised set once an IndexError has been thrown.                     *)

Cur == [position |-> position, line |-> line, column |-> column,
        tokens |-> tokens, raised |-> FALSE]

\* _peek_next_char(offset)
PeekNextChar(s, offset) ==
  IF s.position + offset < Len(text) THEN text[s.position + offset + 1] ELSE NoChar

\* _advance(): text[self.position] throws past the end of the text
Advance(s) ==
  IF s.raised THEN s
  ELSE IF s.position >= Len(text) THEN [s EXCEPT !.raised = TRUE]
  ELSE IF text[s.position + 1] = NL
       THEN [s EXCEPT !.position = @ + 1, !.line = @ + 1, !.column = 1]
       ELSE [s EXCEPT !.position = @ + 1, !.column = @ + 1]

\* the character _advance() returns
AdvancedChar(s) == PeekNextChar(s, 0)

\* _advance_line() without self.line += 1
AdvanceLineSameLine(s) ==
  [s EXCEPT !.position = @ + 1, !.column = 1]

\* _advance_line()
AdvanceLine(s) ==
  [s EXCEPT !.position = @ + 1, !.line = @ + 1, !.column = 1]

\* self.tokens.append(...)
Emit(s, tok) == IF s.raised THEN s ELSE [s EXCEPT !.tokens = Append(@, tok)]

\* self.position += n; self.column += n
Skip(s, n) ==
  IF s.raised THEN s ELSE [s EXCEPT !.position = @ + n, !.column = @ + n]

\* self.text[p:].startswith(stop)
StartsWithAt(p, stop) ==
  /\ p + Len(stop) <= Len(text)
  /\ \A i \in 1..Len(stop) : text[p + i] = stop[i]

\* _read_until(stop): the state after the loop; the string returned is
\* Slice(start, result.position)
RECURSIVE ReadUntil(_, _)
ReadUntil(s, stop) ==
  IF s.raised THEN s
  ELSE IF ~StartsWithAt(s.position, stop) /\ s.position < Len(text)
       THEN ReadUntil(Advance(s), stop)
       ELSE s

\* _read_digits(): the state after the loop
RECURSIVE ReadDigits(_)
ReadDigits(s) ==
  IF s.raised THEN s
  ELSE IF IsDigit(PeekNextChar(s, 0)) THEN ReadDigits(Advance(s)) ELSE s

----------------------------------------------------------------------------
(* Recognizers.  Each maps the lexer state at its call to the state at its *)
(* return (or at the point where it throws).                               *)

\* _handle_escape_sequence advancing past the backslash only
HandleEscapeSequenceOneChar(s) ==
  IF s.position + 1 < Len(text)
  THEN Skip(Emit(s, Token("TEXT", <<text[s.position + 2]>>, s.line, s.column)), 1)
  ELSE Advance(Emit(s, Token("TEXT", <<BS>>, s.line, s.column)))

\* _handle_escape_sequence
HandleEscapeSequence(s) ==
  IF s.position + 1 < Len(text)
  THEN Skip(Emit(s, Token("TEXT", <<text[s.position + 2]>>, s.line, s.column)), 2)
  ELSE Advance(Emit(s, Token("TEXT", <<BS>>, s.line, s.column)))

HeadingType(level) ==
  <<"HEADING_1", "HEADING_2", "HEADING_3", "HEADING_4", "HEADING_5", "HEADING_6">>[level]

\* the loop of _lex_heading: while self._peek_next_char() == '#'
RECURSIVE ReadHashes(_)
ReadHashes(s) ==
  IF ~s.raised /\ PeekNextChar(s, 0) = "#" THEN ReadHashes(Advance(s)) ELSE s

\* _lex_heading with the level test off by one (level >= 6)
LexHeadingLevelOffByOne(s) ==
  LET s1 == ReadHashes(s)
      level == s1.position - s.position
  IN IF level >= 6
     THEN Emit(s1, Token("ERROR", "Invalid heading level (too many #)", s.line, s.column))
     ELSE IF PeekNextChar(s1, 0) # SP
     THEN Emit(s1, Token("ERROR", "Expected space after heading #", s.line, s.column))
     ELSE LET s2 == Advance(s1)
              s3 == ReadUntil(s2, <<NL>>)
              value == Slice(s2.position, s3.position)
          IN Emit(s3, Token(HeadingType(level), Strip(value), s.line, s.column))

\* _lex_heading
LexHeading(s) ==
  LET s1 == ReadHashes(s)
      level == s1.position - s.position
  IN IF level > 6
     THEN Emit(s1, Token("ERROR", "Invalid heading level (too many #)", s.line, s.column))
     ELSE IF PeekNextChar(s1, 0) # SP
     THEN Emit(s1, Token("ERROR", "Expected space after heading #", s.line, s.column))
     ELSE LET s2 == Advance(s1)
              s3 == ReadUntil(s2, <<NL>>)
              value == Slice(s2.position, s3.position)
          IN Emit(s3, Token(HeadingType(level), Strip(value), s.line, s.column))

\* _lex_unordered_list_item
LexUnorderedListItem(s) ==
  LET marker == AdvancedChar(s)
      s1 == Advance(s)
  IN IF PeekNextChar(s1, 0) # SP
     THEN Emit(s1, Token("ERROR", <<"Expected space after list marker", marker>>,
                         s.line, s.column))
     ELSE LET s2 == Advance(s1)
              s3 == ReadUntil(s2, <<NL>>)
              value == Slice(s2.position, s3.position)
          IN Emit(s3, Token("UNORDERED_LIST_ITEM", Strip(value), s.line, s.column))

\* _lex_ordered_list_item
LexOrderedListItem(s) ==
  LET s1 == ReadDigits(s)
  IN IF PeekNextChar(s1, 0) # "."
     THEN Emit(s1, Token("ERROR", "Expected \".\" after ordered list number",
                         s.line, s.column))
     ELSE LET s2 == Advance(s1)
          IN IF PeekNextChar(s2, 0) # SP
             THEN Emit(s2, Token("ERROR", "Expected space after \".\" in ordered list item",
                                 s.line, s.column))
             ELSE LET s3 == Advance(s2)
                      s4 == ReadUntil(s3, <<NL>>)
                      value == Slice(s3.position, s4.position)
                  IN Emit(s4, Token("ORDERED_LIST_ITEM", Strip(value), s.line, s.column))

\* _lex_blockquote
LexBlockquote(s) ==
  LET s1 == Advance(s)
  IN IF PeekNextChar(s1, 0) # SP
     THEN Emit(s1, Token("ERROR", "Expected space after \">\" in blockquote",
                         s.line, s.column))
     ELSE LET s2 == Advance(s1)
              s3 == ReadUntil(s2, <<NL>>)
              value == Slice(s2.position, s3.position)
          IN Emit(s3, Token("BLOCKQUOTE", Strip(value), s.line, s.column))

\* the language loop of _lex_code_block
RECURSIVE ReadLanguage(_)
ReadLanguage(s) ==
  IF ~s.raised /\ s.position < Len(text) /\ text[s.position + 1] \notin {NL, SP}
  THEN ReadLanguage(Advance(s))
  ELSE s

\* _lex_code_block
LexCodeBlock(s) ==
  LET s1 == Advance(s)
      s2 == IF Slice(s1.position, s1.position + 2) = <<BT, BT>> THEN Skip(s1, 2) ELSE s1
      c  == Slice(s2.position, s2.position + 1)
      hasLanguage == ~(c # <<>> /\ IsSpace(c[1])) /\ c # <<NL>>
      s3 == IF hasLanguage THEN ReadLanguage(s2) ELSE s2
      language == IF hasLanguage THEN Strip(Slice(s2.position, s3.position)) ELSE <<>>
      s4 == Advance(s3)
      s5 == ReadUntil(s4, <<BT, BT, BT>>)
      value == Slice(s4.position, s5.position)
  IN IF Slice(s5.position, s5.position + 3) # <<BT, BT, BT>>
     THEN Emit(s5, Token("ERROR", "Unclosed code block", s.line, s.column))
     ELSE Advance(Advance(Advance(
            Emit(s5, Token("CODE_BLOCK", [language |-> language, content |-> Strip(value)],
                           s.line, s.column)))))

\* _lex_horizontal_rule
LexHorizontalRule(s) ==
  IF Slice(s.position, s.position + 3)
       \notin {<<"-", "-", "-">>, <<"*", "*", "*">>, <<"_", "_", "_">>}
  THEN Emit(s, Token("ERROR", "Invalid horizontal rule", s.line, s.column))
  ELSE LET s1 == Skip(s, 3)
           s2 == ReadUntil(s1, <<NL>>)
           rest_of_line == Strip(Slice(s1.position, s2.position))
       IN IF rest_of_line # <<>>
          THEN Emit(s2, Token("ERROR", "Invalid characters after horizontal rule",
                              s.line, s.column))
          ELSE Emit(s2, Token("HORIZONTAL_RULE", Slice(s.column - 1, s2.position),
                              s.line, s.column))

\* _is_horizontal_rule: its result
IsHorizontalRule(s) ==
  LET s1 == ReadUntil(s, <<NL>>)
      line_content == Strip(Slice(s.position, s1.position))
  IN /\ Len(line_content) >= 3
     /\ \A i \in 1..Len(line_content) : line_content[i] \in {"-", "*", "_"}

\* _is_horizontal_rule: the state it leaves (only self.position is reset)
AfterIsHorizontalRule(s) ==
  [ReadUntil(s, <<NL>>) EXCEPT !.position = s.position]

\* the row loop of _lex_table
RECURSIVE TableRows(_)
TableRows(s) ==
  IF ~s.raised /\ PeekNextChar(s, 0) = "|"
  THEN LET s1 == ReadUntil(s, <<NL>>)
           row == Slice(s.position, s1.position)
       IN TableRows(Emit(s1, Token("TABLE_ROW", Strip(row), s.line, s.column)))
  ELSE s

\* _lex_table
LexTable(s) ==
  LET s1 == ReadUntil(s, <<NL>>)
      header == Slice(s.position, s1.position)
      s2 == ReadUntil(s1, <<NL>>)
      divider == Slice(s1.position, s2.position)
      s3 == Emit(s2, Token("TABLE_HEADER", Strip(header), s.line, s.column))
      s4 == Emit(s3, Token("TABLE_DIVIDER", Strip(divider), s3.line, s3.column))
  IN TableRows(s4)

\* _lex_html_block
LexHtmlBlock(s) ==
  LET s1 == ReadUntil(s, <<">">>)
      value == Slice(s.position, s1.position)
  IN Advance(Emit(s1, Token("HTML_BLOCK", Strip(value), s.line, s.column)))

\* _lex_footnote
LexFootnote(s) ==
  IF PeekNextChar(s, 0) # "[" \/ PeekNextChar(s, 1) # "^"
  THEN Emit(s, Token("ERROR", "Expected footnote format [^digit]:", s.line, s.column))
  ELSE LET s1 == Advance(Advance(s))
           s2 == ReadDigits(s1)
           digit == Slice(s1.position, s2.position)
       IN IF digit = <<>> \/ PeekNextChar(s2, 0) # "]"
          THEN Emit(s2, Token("ERROR", "Malformed footnote syntax", s.line, s.column))
          ELSE LET s3 == Advance(s2)
               IN IF PeekNextChar(s3, 0) # ":"
                  THEN Emit(s3, Token("ERROR", "Expected \":\" after footnote number",
                                      s.line, s.column))
                  ELSE LET s4 == Advance(s3)
                           s5 == ReadUntil(s4, <<NL>>)
                           value == Slice(s4.position, s5.position)
                       IN Emit(s5, Token("FOOTNOTE", digit \o <<":", SP>> \o Strip(value),
                                         s.line, s.column))

\* _lex_link_or_image without the _advance() that skips the closing ')'
LexLinkOrImageNoSkip(s) ==
  LET is_image == PeekNextChar(s, 0) = "!"
      s1 == IF is_image THEN Advance(s) ELSE s
  IN IF PeekNextChar(s1, 0) # "["
     THEN Emit(s1, Token("ERROR", "Expected \"[\" to start link/image text", s.line, s.column))
     ELSE
      LET s2 == Advance(s1)
          s3 == ReadUntil(s2, <<"]">>)
          alt_text == Slice(s2.position, s3.position)
      IN IF PeekNextChar(s3, 0) # "]"
         THEN Emit(s3, Token("ERROR", "Expected closing \"]\" for link/image text",
                             s.line, s.column))
         ELSE
          LET s4 == Advance(s3)
          IN IF PeekNextChar(s4, 0) # "("
             THEN Emit(s4, Token("ERROR", "Expected \"(\" to start link/image URL",
                                 s.line, s.column))
             ELSE
              LET s5 == Advance(s4)
                  s6 == ReadUntil(s5, <<")">>)
                  url == Slice(s5.position, s6.position)
              IN IF PeekNextChar(s6, 0) # ")"
                 THEN Emit(s6, Token("ERROR", "Expected closing \")\" for link/image URL",
                                     s.line, s.column))
                 ELSE IF is_image
                 THEN Emit(s6, Token("IMAGE", [alt_text |-> alt_text, url |-> url],
                                              s.line, s.column))
                 ELSE Emit(s6, Token("LINK", [text |-> alt_text, url |-> url],
                                              s.line, s.column))

\* _lex_link_or_image
LexLinkOrImage(s) ==
  LET is_image == PeekNextChar(s, 0) = "!"
      s1 == IF is_image THEN Advance(s) ELSE s
  IN IF PeekNextChar(s1, 0) # "["
     THEN Emit(s1, Token("ERROR", "Expected \"[\" to start link/image text", s.line, s.column))
     ELSE
      LET s2 == Advance(s1)
          s3 == ReadUntil(s2, <<"]">>)
          alt_text == Slice(s2.position, s3.position)
      IN IF PeekNextChar(s3, 0) # "]"
         THEN Emit(s3, Token("ERROR", "Expected closing \"]\" for link/image text",
                             s.line, s.column))
         ELSE
          LET s4 == Advance(s3)
          IN IF PeekNextChar(s4, 0) # "("
             THEN Emit(s4, Token("ERROR", "Expected \"(\" to start link/image URL",
                                 s.line, s.column))
             ELSE
              LET s5 == Advance(s4)
                  s6 == ReadUntil(s5, <<")">>)
                  url == Slice(s5.position, s6.position)
              IN IF PeekNextChar(s6, 0) # ")"
                 THEN Emit(s6, Token("ERROR", "Expected closing \")\" for link/image URL",
                                     s.line, s.column))
                 ELSE IF is_image
                 THEN Emit(Advance(s6), Token("IMAGE", [alt_text |-> alt_text, url |-> url],
                                              s.line, s.column))
                 ELSE Emit(Advance(s6), Token("LINK", [text |-> alt_text, url |-> url],
                                              s.line, s.column))

\* the scan for a closing marker without the stop at a newline
RECURSIVE ScanForMarkerAcrossLines(_, _)
ScanForMarkerAcrossLines(end_pos, marker) ==
  IF /\ end_pos < Len(text)
     /\ Slice(end_pos, end_pos + Len(marker)) # marker
  THEN ScanForMarkerAcrossLines(end_pos + 1, marker)
  ELSE end_pos

\* the same-line scan for a closing marker: the end_pos loops of
\* _lex_emphasis_or_strong and _lex_strikethrough
RECURSIVE ScanForMarker(_, _)
ScanForMarker(end_pos, marker) ==
  IF /\ end_pos < Len(text)
     /\ Slice(end_pos, end_pos + Len(marker)) # marker
     /\ text[end_pos + 1] # NL
  THEN ScanForMarker(end_pos + 1, marker)
  ELSE end_pos

\* the tail shared by the paired-marker recognizers, entered with the cursor
\* just past the opening marker
LexPaired(s, s1, marker, token_type) ==
  LET end_pos == ScanForMarker(s1.position, marker)
  IN IF end_pos >= Len(text) \/ text[end_pos + 1] = NL
     THEN \* self.position = end_pos; self.column += end_pos - self.position
          [Emit(s1, Token("TEXT", marker \o Slice(s1.position, end_pos), s.line, s.column))
             EXCEPT !.position = end_pos, !.column = @ + (end_pos - end_pos)]
     ELSE LET value == Slice(s1.position, end_pos)
          IN [Emit(s1, Token(token_type, Strip(value), s.line, s.column))
                EXCEPT !.position = end_pos + Len(marker),
                       !.column = @ + Len(value) + Len(marker)]

\* _lex_emphasis_or_strong
LexEmphasisOrStrong(s) ==
  LET marker == PeekNextChar(s, 0)
  IN IF Slice(s.position, s.position + 2) \in {<<"*", "*">>, <<"_", "_">>}
     THEN LexPaired(s, Skip(s, 2), Slice(s.position, s.position + 2), "STRONG")
     ELSE IF marker \in {"*", "_"}
     THEN LexPaired(s, Advance(s), <<marker>>, "EMPHASIS")
     ELSE Advance(Emit(s, Token("TEXT", <<marker>>, s.line, s.column)))

\* _lex_strikethrough
LexStrikethrough(s) ==
  IF Slice(s.position, s.position + 2) = <<"~", "~">>
  THEN \* self.text[self.position+2] throws when '~~' ends the text
       IF s.position + 2 >= Len(text)
       THEN [s EXCEPT !.raised = TRUE]
       ELSE IF text[s.position + 3] # "~"
       THEN LexPaired(s, Skip(s, 2), <<"~", "~">>, "STRIKETHROUGH")
       ELSE Emit(Advance(s), Token("TEXT", <<AdvancedChar(s)>>, s.line, s.column))
  ELSE Emit(Advance(s), Token("TEXT", <<AdvancedChar(s)>>, s.line, s.column))

\* _lex_paragraph_or_text
LexParagraphOrText(s) ==
  LET s1 == ReadUntil(s, <<NL, NL>>)
      value == Slice(s.position, s1.position)
  IN IF value # <<>>
     THEN Emit(s1, Token("PARAGRAPH", Strip(value), s.line, s.column))
     ELSE s1

----------------------------------------------------------------------------
(* Handlers that choose a recognizer by lookahead.                         *)

\* _handle_asterisk
HandleAsterisk(s) ==
  LET s1 == AfterIsHorizontalRule(s)
  IN IF IsHorizontalRule(s) THEN LexHorizontalRule(s1)
     ELSE IF PeekNextChar(s1, 1) = SP THEN LexUnorderedListItem(s1)
     ELSE LexEmphasisOrStrong(s1)

\* _handle_plus
HandlePlus(s) ==
  IF PeekNextChar(s, 1) = SP THEN LexUnorderedListItem(s) ELSE LexParagraphOrText(s)

\* _handle_dash
HandleDash(s) ==
  LET s1 == AfterIsHorizontalRule(s)
  IN IF IsHorizontalRule(s) THEN LexHorizontalRule(s1)
     ELSE IF PeekNextChar(s1, 1) = SP THEN LexUnorderedListItem(s1)
     ELSE LexParagraphOrText(s1)

\* _handle_underscore
HandleUnderscore(s) ==
  LET s1 == AfterIsHorizontalRule(s)
  IN IF IsHorizontalRule(s) THEN LexHorizontalRule(s1) ELSE LexEmphasisOrStrong(s1)

\* _handle_bracket
HandleBracket(s) ==
  IF PeekNextChar(s, 1) = "^" THEN LexFootnote(s) ELSE LexLinkOrImage(s)

\* _handle_digit
HandleDigit(s) ==
  IF PeekNextChar(s, 1) = "." THEN LexOrderedListItem(s) ELSE LexParagraphOrText(s)

----------------------------------------------------------------------------
(* Actions: one iteration of the loop of _tokenize per dispatch branch,    *)
(* the EOF append that ends _tokenize, and get_next_token.                 *)

Init ==
  /\ text \in Inputs
  /\ position = 0
  /\ line = 1
  /\ column = 1
  /\ tokens = <<>>
  /\ pc = "scan"
  /\ returned = <<>>

\* while self.position < len(self.text)
Scanning == pc = "scan" /\ position < Len(text) /\ Len(tokens) < MaxTokens

current_char == text[position + 1]

\* the fields after a handler returned or threw
Return(s) ==
  /\ position' = s.position
  /\ line' = s.line
  /\ column' = s.column
  /\ tokens' = s.tokens
  /\ pc' = IF s.raised THEN "raised" ELSE "scan"
  /\ UNCHANGED <<text, returned>>

OnBackslash == Scanning /\ current_char = BS /\ Return(HandleEscapeSequence(Cur))
OnHash == Scanning /\ current_char = "#" /\ Return(LexHeading(Cur))
OnAsterisk == Scanning /\ current_char = "*" /\ Return(HandleAsterisk(Cur))
OnPlus == Scanning /\ current_char = "+" /\ Return(HandlePlus(Cur))
OnDash == Scanning /\ current_char = "-" /\ Return(HandleDash(Cur))
OnUnderscore == Scanning /\ current_char = "_" /\ Return(HandleUnderscore(Cur))
OnDigit == Scanning /\ IsDigit(current_char) /\ Return(HandleDigit(Cur))
OnGreater == Scanning /\ current_char = ">" /\ Return(LexBlockquote(Cur))
OnBacktick == Scanning /\ current_char = BT /\ Return(LexCodeBlock(Cur))
OnPipe == Scanning /\ current_char = "|" /\ Return(LexTable(Cur))
OnLess == Scanning /\ current_char = "<" /\ Return(LexHtmlBlock(Cur))
OnBracket == Scanning /\ current_char = "[" /\ Return(HandleBracket(Cur))
OnTilde == Scanning /\ current_char = "~" /\ Return(LexStrikethrough(Cur))
OnNewline == Scanning /\ current_char = NL /\ Return(AdvanceLine(Cur))

OnOther ==
  /\ Scanning
  /\ current_char \notin {BS, "#", "*", "+", "-", "_", ">", BT, "|", "<", "[", "~", NL}
  /\ ~IsDigit(current_char)
  /\ Return(LexParagraphOrText(Cur))

\* self.tokens.append(Token('EOF', None, self.line, self.column))
AppendEOF ==
  /\ pc = "scan"
  /\ position >= Len(text)
  /\ tokens' = Append(tokens, Token("EOF", None, line, column))
  /\ pc' = "done"
  /\ UNCHANGED <<text, position, line, column, returned>>

RECURSIVE CountEOF(_)
CountEOF(toks) ==
  IF toks = <<>> THEN 0
  ELSE (IF Head(toks).token_type = "EOF" THEN 1 ELSE 0) + CountEOF(Tail(toks))

\* get_next_token popping the last token (self.tokens.pop())
GetNextTokenFromEnd ==
  /\ pc = "done"
  /\ tokens # <<>> \/ CountEOF(returned) <= MaxPulls
  /\ IF tokens # <<>>
     THEN /\ returned' = Append(returned, tokens[Len(tokens)])
          /\ tokens' = SubSeq(tokens, 1, Len(tokens) - 1)
     ELSE /\ returned' = Append(returned, Token("EOF", None, line, column))
          /\ tokens' = tokens
  /\ UNCHANGED <<text, position, line, column, pc>>

\* get_next_token
GetNextToken ==
  /\ pc = "done"
  /\ tokens # <<>> \/ CountEOF(returned) <= MaxPulls
  /\ IF tokens # <<>>
     THEN /\ returned' = Append(returned, Head(tokens))
          /\ tokens' = Tail(tokens)
     ELSE /\ returned' = Append(returned, Token("EOF", None, line, column))
          /\ tokens' = tokens
  /\ UNCHANGED <<text, position, line, column, pc>>

Next ==
  \/ OnBackslash
  \/ OnHash
  \/ OnAsterisk
  \/ OnPlus
  \/ OnDash
  \/ OnUnderscore
  \/ OnDigit
  \/ OnGreater
  \/ OnBacktick
  \/ OnPipe
  \/ OnLess
  \/ OnBracket
  \/ OnTilde
  \/ OnNewline
  \/ OnOther
  \/ AppendEOF
  \/ GetNextToken

Spec == Init /\ [][Next]_vars

\* the inputs of the termination property: one well-formed construct per dispatch
\* branch, and every string of rule characters and letters up to MaxLiveLen
Samples ==
  {<<BS, "a">>, <<"#", SP, "a">>, <<"+", SP, "a">>, <<"1", ".", SP, "a">>,
   <<">", SP, "a">>, <<BT, NL, BT, BT, BT>>, <<"|", "a">>, <<"<", "a", ">">>,
   <<"[", "a", "]", "(", "a", ")">>, <<"~", "~", "a", "~", "~">>, <<NL, "a">>}

LiveInputs == Samples \cup Strings({"-", "*", "_"}, MaxLiveLen)

InitLive ==
  /\ text \in LiveInputs
  /\ position = 0
  /\ line = 1
  /\ column = 1
  /\ tokens = <<>>
  /\ pc = "scan"
  /\ returned = <<>>

\* the scan is a loop that keeps running: a step that can be taken is taken
LiveSpec == InitLive /\ [][Next]_vars /\ WF_vars(Next)

----------------------------------------------------------------------------
(* Reference notions the properties are stated with.                       *)

\* 1 + the number of newlines in text[0:offset]
TrueLine(offset) == 1 + Cardinality({i \in 1..offset : text[i] = NL})

\* 1 + the number of characters of text[0:offset] after its last newline
TrueColumn(offset) ==
  LET newlines == {i \in 1..offset : text[i] = NL}
      last == IF newlines = {} THEN 0 ELSE CHOOSE i \in newlines : \A j \in newlines : j <= i
  IN 1 + (offset - last)

\* the offset of the newline that ends the line holding offset p, or Len(text)
RECURSIVE EndOfLine(_)
EndOfLine(p) == IF p >= Len(text) \/ text[p + 1] = NL THEN p ELSE EndOfLine(p + 1)

\* the cursor is at the first character of a line
AtLineStart == position = 0 \/ text[position] = NL

\* the number of consecutive copies of ch from offset p on
RECURSIVE RunLength(_, _)
RunLength(p, ch) ==
  IF p < Len(text) /\ text[p + 1] = ch THEN 1 + RunLength(p + 1, ch) ELSE 0

\* the number of consecutive digits from offset p on
RECURSIVE DigitRunLength(_)
DigitRunLength(p) ==
  IF p < Len(text) /\ IsDigit(text[p + 1]) THEN 1 + DigitRunLength(p + 1) ELSE 0

RuleChars == {"-", "*", "_"}

\* s is three or more copies of the character ch
IsRunOf(s, ch) == Len(s) >= 3 /\ \A i \in 1..Len(s) : s[i] = ch

\* a dispatch iteration is being taken from this state
Dispatching == pc = "scan" /\ position < Len(text)

\* equality of tokens, comparing the values only of tokens of one kind
SameToken(a, b) ==
  /\ a.token_type = b.token_type
  /\ a.line = b.line
  /\ a.column = b.column
  /\ a.value = b.value

SameTokens(a, b) ==
  /\ Len(a) = Len(b)
  /\ \A i \in 1..Len(a) : SameToken(a[i], b[i])

\* (line, column) of a is at or before that of b
PositionLeq(a, b) == a.line < b.line \/ (a.line = b.line /\ a.column <= b.column)

\* the tokens a step appended
NewTokens == SubSeq(tokens', Len(tokens) + 1, Len(tokens'))

----------------------------------------------------------------------------
(* Properties.                                                             *)

\* C1: for every input the construction terminates: the dispatch loop ends and
\* the token list then holds exactly one EOF token, its last element.
C1_Terminates ==
  <>(/\ pc = "done"
     /\ CountEOF(tokens) = 1
     /\ tokens[Len(tokens)].token_type = "EOF")

\* C2: the lexer never raises: no recognizer reads the text at an index at or
\* past its end.
C2_NeverRaises == pc # "raised"

\* C3: every token a recognizer emits carries the true 1-based line and column
\* of the offset at which the dispatch loop invoked the recognizer.
C3_TokenPositions ==
  [][Dispatching =>
       \A i \in 1..Len(NewTokens) :
         /\ NewTokens[i].line = TrueLine(position)
         /\ NewTokens[i].column = TrueColumn(position)]_vars

\* C4: consecutive tokens of the token list are in non-decreasing (line, column)
\* order, TABLE_DIVIDER tokens and the final EOF included.
C4_PositionsMonotonic ==
  \A i \in 1..(Len(tokens) - 1) : PositionLeq(tokens[i], tokens[i + 1])

C4_Witness ==
  /\ pc = "done"
  /\ returned = <<>>
  /\ \E i \in 1..Len(tokens) : tokens[i].token_type = "TABLE_DIVIDER"
  /\ \E i \in 1..(Len(tokens) - 1) : tokens[i].line < tokens[i + 1].line
  /\ \E i \in 1..(Len(tokens) - 1) :
       tokens[i].line = tokens[i + 1].line /\ tokens[i].column < tokens[i + 1].column

\* the index of the first EOF token of a sequence holding one
FirstEOF(toks) ==
  CHOOSE i \in 1..Len(toks) :
    /\ toks[i].token_type = "EOF"
    /\ \A j \in 1..(i - 1) : toks[j].token_type # "EOF"

\* C5: after construction get_next_token returns the scanned tokens first-in
\* first-out, each once, the real EOF last; every later call returns an EOF
\* token with the line and column of the real EOF.
C5_PullOrder ==
  [][pc = "done" =>
       /\ Len(returned') = Len(returned) + 1
       /\ SameTokens(SubSeq(returned', 1, Len(returned)), returned)
       /\ IF tokens # <<>>
          THEN /\ SameToken(returned'[Len(returned')], tokens[1])
               /\ SameTokens(tokens', Tail(tokens))
          ELSE /\ tokens' = <<>>
               /\ CountEOF(returned) >= 1
               /\ returned'[Len(returned')].token_type = "EOF"
               /\ returned'[Len(returned')].line = returned[FirstEOF(returned)].line
               /\ returned'[Len(returned')].column = returned[FirstEOF(returned)].column
               /\ FirstEOF(returned) = FirstEOF(returned')]_vars

C5_Witness ==
  /\ pc = "done"
  /\ tokens = <<>>
  /\ Len(returned) >= 5
  /\ returned[1].token_type # "EOF"
  /\ returned[2].token_type # "EOF"
  /\ returned[3].token_type = "EOF"
  /\ returned[5].token_type = "EOF"

\* C6: at a run of n '#': if 1 <= n <= 6 and a space follows, exactly one
\* HEADING_n token with the trimmed rest of the line is emitted and the cursor
\* stops at the newline of the line (or the end of the input); if n > 6 or no
\* space follows, exactly one ERROR token and no HEADING token is emitted.
C6_Heading ==
  [][Dispatching /\ current_char = "#" =>
       LET n == RunLength(position, "#")
           after == position + n
           eol == EndOfLine(position)
       IN /\ pc' = "scan"
          /\ Len(NewTokens) = 1
          /\ IF n <= 6 /\ after < Len(text) /\ text[after + 1] = SP
             THEN /\ NewTokens[1].token_type = HeadingType(n)
                  /\ NewTokens[1].value = Strip(Slice(after + 1, eol))
                  /\ position' = eol
             ELSE NewTokens[1].token_type = "ERROR"]_vars

C6_Witness ==
  /\ pc = "scan"
  /\ Len(tokens) = 1
  /\ tokens[1].token_type = "HEADING_6"
  /\ tokens[1].value = <<"a">>
  /\ position = 8
  /\ position < Len(text)
  /\ text[position + 1] = NL

\* C7: for a line beginning with '-' or '+': a marker followed by a space (on a
\* line that is not a horizontal rule) gives exactly one UNORDERED_LIST_ITEM
\* token with the trimmed rest of the line; a marker not followed by a space, on
\* a line that is not three or more copies of one rule character, is taken by
\* the paragraph fallback (one PARAGRAPH token) and gives no ERROR token.
C7_DashPlusLine ==
  [][Dispatching /\ AtLineStart /\ current_char \in {"-", "+"} =>
       LET eol == EndOfLine(position)
           content == Strip(Slice(position, eol))
           isRule == \E ch \in RuleChars : IsRunOf(content, ch)
           spaced == PeekNextChar(Cur, 1) = SP
       IN /\ spaced /\ ~isRule =>
               /\ Len(NewTokens) = 1
               /\ NewTokens[1].token_type = "UNORDERED_LIST_ITEM"
               /\ NewTokens[1].value = Strip(Slice(position + 2, eol))
          /\ ~spaced /\ ~isRule =>
               /\ Len(NewTokens) = 1
               /\ NewTokens[1].token_type = "PARAGRAPH"]_vars

\* C8: a line that starts with a run of one or more digits followed by '.' and
\* a space gives exactly one ORDERED_LIST_ITEM token with the trimmed rest of the
\* line; a leading digit run not followed by '.' goes to the paragraph fallback.
C8_OrderedListLine ==
  [][Dispatching /\ AtLineStart /\ IsDigit(current_char) =>
       LET after == position + DigitRunLength(position)
           eol == EndOfLine(position)
           dotted == after < Len(text) /\ text[after + 1] = "."
       IN /\ dotted /\ after + 1 < Len(text) /\ text[after + 2] = SP =>
               /\ Len(NewTokens) = 1
               /\ NewTokens[1].token_type = "ORDERED_LIST_ITEM"
               /\ NewTokens[1].value = Strip(Slice(after + 2, eol))
          /\ ~dotted =>
               /\ Len(NewTokens) = 1
               /\ NewTokens[1].token_type = "PARAGRAPH"]_vars

\* C9: a line of n >= 3 copies of one of '-', '*', '_' (optionally followed by
\* whitespace) gives exactly one HORIZONTAL_RULE token and no ERROR token, and
\* the lookahead classifies a line as a horizontal rule only if all its
\* characters are one and the same symbol.
C9_HorizontalRuleLine ==
  [][Dispatching /\ AtLineStart /\ current_char \in RuleChars =>
       LET content == Strip(Slice(position, EndOfLine(position)))
           solely == IsRunOf(content, current_char)
       IN /\ solely =>
               /\ Len(NewTokens) = 1
               /\ NewTokens[1].token_type = "HORIZONTAL_RULE"
          /\ IsHorizontalRule(Cur) => solely]_vars

\* C10: the value of every HORIZONTAL_RULE token is the raw rule text matched
\* in the source (as consumed, or trimmed), on whatever line the rule occurs.
C10_HorizontalRuleValue ==
  [][Dispatching =>
       \A i \in 1..Len(NewTokens) :
         NewTokens[i].token_type = "HORIZONTAL_RULE" =>
           NewTokens[i].value \in {Slice(position, position'),
                                   Strip(Slice(position, position'))}]_vars

\* the start offsets of the consecutive lines starting with '|', from the line
\* that starts at offset p on
RECURSIVE TableBlock(_)
TableBlock(p) ==
  IF p < Len(text) /\ text[p + 1] = "|"
  THEN <<p>> \o (IF EndOfLine(p) < Len(text) THEN TableBlock(EndOfLine(p) + 1) ELSE <<>>)
  ELSE <<>>

\* the trimmed line that starts at offset p
TrimmedLine(p) == Strip(Slice(p, EndOfLine(p)))

\* C11: a block of k >= 2 consecutive lines each starting with '|' gives, in
\* order, one TABLE_HEADER (the trimmed first line), one TABLE_DIVIDER (the
\* trimmed second line) and one TABLE_ROW per remaining line (its trimmed text);
\* no later line of the block is emitted as TABLE_HEADER.
C11_TableBlock ==
  [][Dispatching /\ AtLineStart /\ current_char = "|" =>
       LET block == TableBlock(position)
           k == Len(block)
       IN k >= 2 =>
            /\ Len(NewTokens) = k
            /\ NewTokens[1].token_type = "TABLE_HEADER"
            /\ NewTokens[1].value = TrimmedLine(block[1])
            /\ NewTokens[2].token_type = "TABLE_DIVIDER"
            /\ NewTokens[2].value = TrimmedLine(block[2])
            /\ \A i \in 3..k :
                 /\ NewTokens[i].token_type = "TABLE_ROW"
                 /\ NewTokens[i].value = TrimmedLine(block[i])]_vars

\* the offset of the first occurrence of stop at or after offset p, or Len(text)
RECURSIVE FindFrom(_, _)
FindFrom(p, stop) ==
  IF p >= Len(text) \/ StartsWithAt(p, stop) THEN Min(p, Len(text)) ELSE FindFrom(p + 1, stop)

\* the offset at which the word that starts at offset p ends (space, newline
\* or the end of the text)
RECURSIVE WordEnd(_)
WordEnd(p) ==
  IF p >= Len(text) \/ text[p + 1] \in {SP, NL} THEN Min(p, Len(text)) ELSE WordEnd(p + 1)

Fence == <<BT, BT, BT>>

\* C12: the fenced-code recognizer at a backquote: with no closing fence after
\* the opening fence before the end of the input (also when the input ends right
\* after the fence or the language word) it emits exactly one ERROR token and no
\* CODE_BLOCK; with a closing fence it emits exactly one CODE_BLOCK token whose
\* language is the word right after the opening fence ('' if none) and whose
\* content is the trimmed text up to the closing fence, and the cursor ends
\* right after the closing fence.
C12_CodeBlock ==
  [][Dispatching /\ current_char = BT =>
       LET open == IF StartsWithAt(position, Fence) THEN 3 ELSE 1
           word == WordEnd(position + open)
           close == FindFrom(word, Fence)
       IN /\ pc' = "scan"
          /\ Len(NewTokens) = 1
          /\ IF StartsWithAt(close, Fence)
             THEN /\ NewTokens[1].token_type = "CODE_BLOCK"
                  /\ NewTokens[1].value.language = Slice(position + open, word)
                  /\ NewTokens[1].value.content = Strip(Slice(word, close))
                  /\ position' = close + 3
             ELSE NewTokens[1].token_type = "ERROR"]_vars

\* the shape '[' text ']' '(' url ')' from offset p on: where the text and the
\* url end, and which of the delimiters are there
LinkTextEnd(p) == FindFrom(p + 1, <<"]">>)
LinkHasBracket(p) == LinkTextEnd(p) < Len(text)
LinkHasParen(p) == LinkHasBracket(p) /\ StartsWithAt(LinkTextEnd(p) + 1, <<"(">>)
LinkUrlEnd(p) == FindFrom(LinkTextEnd(p) + 2, <<")">>)
LinkComplete(p) == LinkHasParen(p) /\ LinkUrlEnd(p) < Len(text)

\* the link recognizer is invoked: '[' not followed by '^'
AtLink == Dispatching /\ current_char = "[" /\ PeekNextChar(Cur, 1) # "^"

\* what C13 says of the tokens: one LINK for the complete shape, else one ERROR
LinkTokens ==
  /\ pc' = "scan"
  /\ Len(NewTokens) = 1
  /\ IF LinkComplete(position)
     THEN /\ NewTokens[1].token_type = "LINK"
          /\ NewTokens[1].value.text = Slice(position + 1, LinkTextEnd(position))
          /\ NewTokens[1].value.url = Slice(LinkTextEnd(position) + 2, LinkUrlEnd(position))
          /\ position' = LinkUrlEnd(position) + 1
     ELSE NewTokens[1].token_type = "ERROR"

\* C13 as claimed: the link recognizer at '[' (not followed by '^') emits
\* exactly one LINK {text, url} for text ']' '(' url ')' and ends just past ')';
\* if ']', '(' or ')' is missing it emits exactly one ERROR and no LINK, and the
\* cursor is left where the last read_until stopped.
C13_LinkAsClaimed ==
  [][AtLink =>
       /\ LinkTokens
       /\ ~LinkComplete(position) =>
            position' = IF LinkHasParen(position) THEN LinkUrlEnd(position)
                        ELSE LinkTextEnd(position)]_vars

\* C13 (amended): as claimed, except that when '(' is missing after a ']' that
\* was found the cursor is left just past that ']' (one character after the
\* place where the read_until stopped); when ']' or ')' is missing it is left
\* where the last read_until stopped, the end of the input.
C13_Link ==
  [][AtLink =>
       /\ LinkTokens
       /\ ~LinkComplete(position) =>
            position' = IF LinkHasParen(position) THEN LinkUrlEnd(position)
                        ELSE IF LinkHasBracket(position) THEN LinkTextEnd(position) + 1
                        ELSE LinkTextEnd(position)]_vars

C13_Witness ==
  /\ pc = "scan"
  /\ text = <<"[", "a", "]", "a">>
  /\ position = 3
  /\ Len(tokens) = 1
  /\ tokens[1].token_type = "ERROR"
  /\ tokens[1].value = "Expected \"(\" to start link/image URL"

\* C14: an input '!' '[' alt ']' '(' url ')' gives an IMAGE token with value
\* {alt_text: alt, url: url}, not a LINK, PARAGRAPH or ERROR token.
C14_Image ==
  [][Dispatching /\ current_char = "!" /\ PeekNextChar(Cur, 1) = "["
       /\ LinkComplete(position + 1) =>
       /\ Len(NewTokens) = 1
       /\ NewTokens[1].token_type = "IMAGE"
       /\ NewTokens[1].value.alt_text = Slice(position + 2, LinkTextEnd(position + 1))
       /\ NewTokens[1].value.url =
            Slice(LinkTextEnd(position + 1) + 2, LinkUrlEnd(position + 1))]_vars

\* C15: the HTML recognizer at '<' emits exactly one HTML_BLOCK token whose
\* value is the trimmed source text from '<' up to and including the next '>';
\* with no '>' it consumes to the end of the input and still emits one
\* HTML_BLOCK token, without an ERROR token and without failing.
C15_HtmlBlock ==
  [][Dispatching /\ current_char = "<" =>
       LET close == FindFrom(position, <<">">>)
       IN /\ pc' = "scan"
          /\ Len(NewTokens) = 1
          /\ NewTokens[1].token_type = "HTML_BLOCK"
          /\ NewTokens[1].value = Strip(Slice(position, close + 1))
          /\ position' = Min(close + 1, Len(text))]_vars

\* the characters the dispatch loop gives no recognizer of their own
IsPlain(ch) ==
  /\ ch \notin {BS, "#", "*", "+", "-", "_", ">", BT, "|", "<", "[", "~", NL}
  /\ ~IsDigit(ch)

\* C16: the paragraph fallback reads up to the first two consecutive newlines
\* or the end of the input and emits exactly one PARAGRAPH token (the trimmed
\* text) if and only if the text read is non-empty after trimming, and no token
\* otherwise; so no PARAGRAPH token has an empty value.
C16_Paragraph ==
  [][Dispatching =>
       /\ \A i \in 1..Len(NewTokens) :
            NewTokens[i].token_type = "PARAGRAPH" => NewTokens[i].value # <<>>
       /\ IsPlain(current_char) =>
            LET stop == FindFrom(position, <<NL, NL>>)
                captured == Slice(position, stop)
            IN /\ pc' = "scan"
               /\ position' = stop
               /\ IF Strip(captured) # <<>>
                  THEN /\ Len(NewTokens) = 1
                       /\ NewTokens[1].token_type = "PARAGRAPH"
                       /\ NewTokens[1].value = Strip(captured)
                  ELSE NewTokens = <<>>]_vars

\* C17: at a backslash followed by a character c, exactly one TEXT token with
\* value c is emitted and exactly two characters are consumed, so c starts no
\* construct; at a backslash that ends the input, exactly one TEXT token with
\* value '\' is emitted and exactly one character is consumed.
C17_Escape ==
  [][Dispatching /\ current_char = BS =>
       /\ pc' = "scan"
       /\ Len(NewTokens) = 1
       /\ NewTokens[1].token_type = "TEXT"
       /\ IF position + 1 < Len(text)
          THEN /\ NewTokens[1].value = <<text[position + 2]>>
               /\ position' = position + 2
          ELSE /\ NewTokens[1].value = <<BS>>
               /\ position' = position + 1]_vars

C17_Witness ==
  /\ pc = "done"
  /\ returned = <<>>
  /\ text = <<BS, "*">>
  /\ Len(tokens) = 2
  /\ tokens[1].token_type = "TEXT"
  /\ tokens[1].value = <<"*">>
  /\ tokens[2].token_type = "EOF"

\* the emphasis/strong recognizer is invoked
AtEmphasis ==
  /\ Dispatching
  /\ \/ current_char = "*" /\ ~IsHorizontalRule(Cur) /\ PeekNextChar(Cur, 1) # SP
     \/ current_char = "_" /\ ~IsHorizontalRule(Cur)

\* C18: the emphasis/strong recognizer at an opener ('**' or '__' for strong, one
\* '*' or '_' for emphasis) scans for the same closer up to the first newline;
\* with the closer on the same line it emits exactly one STRONG (EMPHASIS) token
\* with the trimmed enclosed text and ends just past the closer; otherwise it
\* emits exactly one TEXT token (the opener plus the scanned text), no STRONG or
\* EMPHASIS token, and ends at that newline or at the end of the input.
C18_EmphasisOrStrong ==
  [][AtEmphasis =>
       LET strong == Slice(position, position + 2) \in {<<"*", "*">>, <<"_", "_">>}
           opener == IF strong THEN Slice(position, position + 2) ELSE <<current_char>>
           start == position + Len(opener)
           close == FindFrom(start, opener)
           eol == EndOfLine(start)
       IN /\ pc' = "scan"
          /\ Len(NewTokens) = 1
          /\ IF close < Len(text) /\ close < eol
             THEN /\ NewTokens[1].token_type = (IF strong THEN "STRONG" ELSE "EMPHASIS")
                  /\ NewTokens[1].value = Strip(Slice(start, close))
                  /\ position' = close + Len(opener)
             ELSE /\ NewTokens[1].token_type = "TEXT"
                  /\ NewTokens[1].value = opener \o Slice(start, eol)
                  /\ position' = eol]_vars

C18_Witness ==
  /\ pc = "scan"
  /\ text = <<"*", "*", "a", "*", "*">>
  /\ position = 5
  /\ Len(tokens) = 1
  /\ tokens[1].token_type = "STRONG"
  /\ tokens[1].value = <<"a">>

\* C19: a run of three or more '~' is never a strikethrough opener: at a lone
\* '~' or at the start of a run of three or more, one TEXT token '~' is emitted
\* and one character consumed; STRIKETHROUGH is emitted only for an opener of
\* exactly two '~' with a closing '~~' on the same line, so never with its
\* enclosed text starting right after a run of three or more.
C19_Strikethrough ==
  [][Dispatching /\ current_char = "~" =>
       LET run == RunLength(position, "~")
           inRun == position > 0 /\ text[position] = "~"
       IN /\ ~inRun /\ (run = 1 \/ run >= 3) =>
               /\ pc' = "scan"
               /\ Len(NewTokens) = 1
               /\ NewTokens[1].token_type = "TEXT"
               /\ NewTokens[1].value = <<"~">>
               /\ position' = position + 1
          /\ \A i \in 1..Len(NewTokens) :
               NewTokens[i].token_type = "STRIKETHROUGH" =>
                 /\ ~inRun
                 /\ run = 2
                 /\ FindFrom(position + 2, <<"~", "~">>) < EndOfLine(position + 2)]_vars

\* C20: every iteration of the dispatch loop that returns, on every path, ends
\* with the offset strictly greater than it was when the recognizer was invoked.
C20_Progress ==
  [][Dispatching /\ pc' = "scan" => position' > position]_vars

\* C21: whenever control is back in the dispatch loop, and when EOF is appended,
\* line is 1 + the number of newlines in text[0:position] and column is 1 + the
\* number of characters of text[0:position] after its last newline.
C21_CursorConsistent ==
  pc \in {"scan", "done"} =>
    /\ line = TrueLine(position)
    /\ column = TrueColumn(position)

\* C22: the horizontal-rule lookahead is free of side effects: where the
\* dispatch loop runs it ('*', '-', '_'), the offset, line, column and token
\* list it leaves are those it found.
C22_LookaheadPure ==
  Dispatching /\ current_char \in RuleChars =>
    LET after == AfterIsHorizontalRule(Cur)
    IN /\ ~after.raised
       /\ after.position = position
       /\ after.line = line
       /\ after.column = column
       /\ SameTokens(after.tokens, tokens)

====
